---- MODULE Spec2Model ----
(***************************************************************************)
(* Sentiment140 preparation pipeline: DataCollector.load_data (balanced    *)
(* sampling), DataCleaner.clean_text_fast / clean_dataset (normalisation,  *)
(* empty and duplicate removal) and FeatureEngineer (TF-IDF fit/transform  *)
(* and the train/test split).                                              *)
(*                                                                         *)
(* A Python string is a sequence of one-character strings.  A DataFrame is *)
(* a sequence of rows (records); the row field id is the row's position in *)
(* the frame handed to the operation, so that a row can be followed        *)
(* through filters.  A text column holds strings and missing cells (NaN   *)
(* or None, written NaN here); its dtype is float64 when it holds only     *)
(* float NaN and object otherwise.                                         *)
(* Seeded pseudo-random draws (random_state=42) are modelled as a choice   *)
(* over every sample, permutation or split the draw could produce.         *)
(***************************************************************************)
EXTENDS Integers, Sequences, FiniteSets, TLC

VARIABLES
    \* normaliser: the text given, its cleaning, the cleaning of that, position
    raw, once, twice, tpc,
    \* clean_dataset: the caller's frame and the dtype of its text column, the
    \* frame returned, the three "Removed ..." counts it prints, position
    df, text_dtype, clean_df, removed_missing, removed_empty, removed_dup, cpc,
    \* load_data: whether the dataset file is there, its rows, the sample_size
    \* argument, what the call returned, position
    file_exists, corpus, sample_size, loaded, lpc,
    \* FeatureEngineer: self.is_fitted, the state of self.vectorizer, the
    \* texts of the last fit, the calls made so far with their outcomes, what
    \* the last call returned
    is_fitted, vectorizer, fit_texts, calls, fe_out,
    \* split_data: the rows X, the labels y, test_size in hundredths, what the
    \* call returned, position
    X, y, test_size, split_out, spc

textVars == <<raw, once, twice, tpc>>
cleanVars == <<df, text_dtype, clean_df, removed_missing, removed_empty, removed_dup, cpc>>
loadVars == <<file_exists, corpus, sample_size, loaded, lpc>>
feVars == <<is_fitted, vectorizer, fit_texts, calls, fe_out>>
splitVars == <<X, y, test_size, split_out, spc>>
vars == <<textVars, cleanVars, loadVars, feVars, splitVars>>

(***************************************************************************)
(* Characters and strings                                                  *)
(*                                                                         *)
(* A character is a one-element string.  A printable ASCII character is    *)
(* written as itself, tab, line feed, carriage return and form feed by     *)
(* their escapes, and any other code point by its name "U+XXXX".  The      *)
(* characters covered are the 256 code points that encoding='latin-1'      *)
(* yields, every Unicode whitespace character, and the further code points *)
(* of OtherWord: a capital whose lower case is two characters (U+0130), a  *)
(* non-Latin digit (U+0663) and a non-Latin letter pair (U+0391, U+03B1).  *)
(***************************************************************************)
NaN == <<"NaN">>

UpperAZ == <<"A","B","C","D","E","F","G","H","I","J","K","L","M",
             "N","O","P","Q","R","S","T","U","V","W","X","Y","Z">>
LowerAZ == <<"a","b","c","d","e","f","g","h","i","j","k","l","m",
             "n","o","p","q","r","s","t","u","v","w","x","y","z">>
Letters == {LowerAZ[i] : i \in 1..26}
Capitals == {UpperAZ[i] : i \in 1..26}
Digits == {"0","1","2","3","4","5","6","7","8","9"}

\* the cased capitals of Latin-1 above ASCII and their str.lower()
UpperLatin1 == <<
    "U+00C0", "U+00C1", "U+00C2", "U+00C3", "U+00C4", "U+00C5", "U+00C6", "U+00C7",
    "U+00C8", "U+00C9", "U+00CA", "U+00CB", "U+00CC", "U+00CD", "U+00CE", "U+00CF",
    "U+00D0", "U+00D1", "U+00D2", "U+00D3", "U+00D4", "U+00D5", "U+00D6", "U+00D8",
    "U+00D9", "U+00DA", "U+00DB", "U+00DC", "U+00DD", "U+00DE" >>
LowerLatin1 == <<
    "U+00E0", "U+00E1", "U+00E2", "U+00E3", "U+00E4", "U+00E5", "U+00E6", "U+00E7",
    "U+00E8", "U+00E9", "U+00EA", "U+00EB", "U+00EC", "U+00ED", "U+00EE", "U+00EF",
    "U+00F0", "U+00F1", "U+00F2", "U+00F3", "U+00F4", "U+00F5", "U+00F6", "U+00F8",
    "U+00F9", "U+00FA", "U+00FB", "U+00FC", "U+00FD", "U+00FE" >>
CapitalsLatin1 == {UpperLatin1[i] : i \in DOMAIN UpperLatin1}
LettersLatin1 == {LowerLatin1[i] : i \in DOMAIN LowerLatin1}

\* the other alphanumerics of Latin-1: ordinal indicators, micro sign,
\* superscript digits, vulgar fractions, sharp s, y with diaeresis
OtherWordLatin1 == {
    "U+00AA", "U+00B2", "U+00B3", "U+00B5", "U+00B9", "U+00BA", "U+00BC", "U+00BD",
    "U+00BE", "U+00DF", "U+00FF" }

\* alphanumerics beyond Latin-1
OtherWord == {"U+0130", "U+0663", "U+0391", "U+03B1"}

\* the characters str.isspace() holds of; the regex classes \s and \S,
\* str.split() and str.strip() all use this set
Whitespace == {
    " ", "\t", "\n", "\r", "\f",
    "U+000B", "U+001C", "U+001D", "U+001E", "U+001F", "U+0085", "U+00A0", "U+1680",
    "U+2000", "U+2001", "U+2002", "U+2003", "U+2004", "U+2005", "U+2006", "U+2007",
    "U+2008", "U+2009", "U+200A", "U+2028", "U+2029", "U+202F", "U+205F", "U+3000" }

\* regex \s
IsSpace(c) == c \in Whitespace
\* regex \w on a str pattern: the alphanumerics and the underscore
IsWord(c) ==
    c \in Letters \cup Capitals \cup Digits \cup {"_"}
          \cup CapitalsLatin1 \cup LettersLatin1 \cup OtherWordLatin1 \cup OtherWord

\* str.lower() on one character; the result is a string, of two characters
\* for U+0130 (i followed by the combining dot above)
LowerChar(c) ==
    IF c \in Capitals THEN <<LowerAZ[CHOOSE i \in 1..26 : UpperAZ[i] = c]>>
    ELSE IF c \in CapitalsLatin1
        THEN <<LowerLatin1[CHOOSE i \in DOMAIN UpperLatin1 : UpperLatin1[i] = c]>>
    ELSE IF c = "U+0130" THEN <<"i", "U+0307">>
    ELSE IF c = "U+0391" THEN <<"U+03B1">>
    ELSE <<c>>

\* str(text).lower()
RECURSIVE lower(_)
lower(s) == IF s = <<>> THEN <<>> ELSE LowerChar(Head(s)) \o lower(Tail(s))

\* s has the literal p at position i
StartsAt(s, i, p) ==
    /\ i + Len(p) - 1 <= Len(s)
    /\ \A k \in 1..Len(p) : s[i + k - 1] = p[k]

\* end (exclusive) of the greedy \S+ run starting at i
RECURSIVE NonSpaceRunEnd(_, _)
NonSpaceRunEnd(s, i) ==
    IF i > Len(s) \/ IsSpace(s[i]) THEN i ELSE NonSpaceRunEnd(s, i + 1)

\* end (exclusive) of the greedy \w+ run starting at i
RECURSIVE WordRunEnd(_, _)
WordRunEnd(s, i) ==
    IF i > Len(s) \/ ~IsWord(s[i]) THEN i ELSE WordRunEnd(s, i + 1)

HTTP == <<"h","t","t","p">>
WWW == <<"w","w","w">>

\* re.sub(r'http\S+|www\S+|@\w+|#\w+', '', text): leftmost match, alternatives
\* in order, each greedy; unmatched characters are copied
RECURSIVE SubNoiseFrom(_, _)
SubNoiseFrom(s, i) ==
    IF i > Len(s) THEN <<>>
    ELSE IF StartsAt(s, i, HTTP) /\ i + 4 <= Len(s) /\ ~IsSpace(s[i + 4])
        THEN SubNoiseFrom(s, NonSpaceRunEnd(s, i + 4))
    ELSE IF StartsAt(s, i, WWW) /\ i + 3 <= Len(s) /\ ~IsSpace(s[i + 3])
        THEN SubNoiseFrom(s, NonSpaceRunEnd(s, i + 3))
    ELSE IF s[i] \in {"@", "#"} /\ i + 1 <= Len(s) /\ IsWord(s[i + 1])
        THEN SubNoiseFrom(s, WordRunEnd(s, i + 1))
    ELSE <<s[i]>> \o SubNoiseFrom(s, i + 1)

SubNoise(s) == SubNoiseFrom(s, 1)

\* re.sub(r'[^a-z\s]', ' ', text)
RECURSIVE SubNonLetters(_)
SubNonLetters(s) ==
    IF s = <<>> THEN <<>>
    ELSE <<IF Head(s) \in Letters \/ IsSpace(Head(s)) THEN Head(s) ELSE " ">>
         \o SubNonLetters(Tail(s))

\* text.split(): the maximal runs of non-whitespace, in order
RECURSIVE SplitFrom(_, _, _)
SplitFrom(s, i, cur) ==
    IF i > Len(s) THEN (IF cur = <<>> THEN <<>> ELSE <<cur>>)
    ELSE IF IsSpace(s[i])
        THEN (IF cur = <<>> THEN <<>> ELSE <<cur>>) \o SplitFrom(s, i + 1, <<>>)
    ELSE SplitFrom(s, i + 1, Append(cur, s[i]))

split(s) == SplitFrom(s, 1, <<>>)

\* ' '.join(words)
RECURSIVE join_nosep(_)
join_nosep(words) ==
    IF words = <<>> THEN <<>> ELSE words[1] \o join_nosep(Tail(words))

RECURSIVE join(_)
join(words) ==
    IF words = <<>> THEN <<>>
    ELSE IF Len(words) = 1 THEN words[1]
    ELSE words[1] \o <<" ">> \o join(Tail(words))

\* self.stopwords
stopwords == {
    <<"t","h","e">>, <<"a">>, <<"a","n">>, <<"a","n","d">>,
    <<"o","r">>, <<"b","u","t">>, <<"i","n">>, <<"o","n">>,
    <<"a","t">>, <<"t","o">>, <<"f","o","r">>, <<"o","f">>,
    <<"w","i","t","h">>, <<"b","y">>, <<"i","s">>, <<"a","m">>,
    <<"a","r","e">>, <<"w","a","s">>, <<"w","e","r","e">>, <<"b","e">>,
    <<"b","e","e","n">>, <<"h","a","v","e">>, <<"h","a","s">>, <<"h","a","d">>,
    <<"d","o">>, <<"d","o","e","s">>, <<"d","i","d">>, <<"w","i","l","l">>,
    <<"w","o","u","l","d">>, <<"c","o","u","l","d">>, <<"s","h","o","u","l","d">>, <<"m","a","y">>,
    <<"m","i","g","h","t">>, <<"m","u","s","t">>, <<"s","h","a","l","l">>, <<"c","a","n">>,
    <<"t","h","i","s">>, <<"t","h","a","t">>, <<"t","h","e","s","e">>, <<"t","h","o","s","e">>,
    <<"i">>, <<"y","o","u">>, <<"h","e">>, <<"s","h","e">>,
    <<"i","t">>, <<"w","e">>, <<"t","h","e","y">>, <<"m","e">>,
    <<"h","i","m">>, <<"h","e","r">>, <<"u","s">>, <<"t","h","e","m">>,
    <<"m","y">>, <<"y","o","u","r">>, <<"h","i","s">>, <<"o","u","r">>,
    <<"t","h","e","i","r">>, <<"n","o","t">>, <<"n","o">>, <<"y","e","s">>,
    <<"g","e","t">>, <<"g","o","t">>, <<"g","o">>, <<"g","o","i","n","g">>,
    <<"c","o","m","e">>, <<"c","a","m","e">>, <<"s","e","e">>, <<"s","a","w">>,
    <<"m","a","k","e">>, <<"m","a","d","e">>, <<"t","a","k","e">>, <<"t","o","o","k">>,
    <<"s","a","y">>, <<"s","a","i","d">>, <<"k","n","o","w">>, <<"t","h","i","n","k">>,
    <<"w","a","n","t">>, <<"l","i","k","e">>, <<"l","o","o","k">>, <<"w","a","y">>,
    <<"t","i","m","e">>, <<"d","a","y">>, <<"g","o","o","d">>, <<"n","e","w">>
}

\* [word for word in words if word not in self.stopwords and len(word) > 2]
KeepWordMinLen(word) == Len(word) > 2
KeepWord(word) == word \notin stopwords /\ KeepWordMinLen(word)
filtered_words(words) == SelectSeq(words, KeepWord)

\* DataCleaner.clean_text_fast
clean_text_fast(text) ==
    IF text = NaN \/ text = <<>> THEN <<>>
    ELSE join(filtered_words(split(SubNonLetters(SubNoise(lower(text))))))

(***************************************************************************)
(* Raw texts for the normaliser: up to MaxChunks pieces, each a piece of   *)
(* tweet text (a URL head, a mention or hashtag sign, punctuation, a       *)
(* digit, blank, a stopword, capitals, a short word tail, an accented      *)
(* capital, a no-break space, a capital that lower() makes two characters).*)
(***************************************************************************)
MaxChunks == 4

Chunks == {
    <<"h","t","t","p">>, <<"w","w","w">>, <<"@">>, <<"#">>, <<" ">>,
    <<".">>, <<"1">>, <<"t","h","e">>, <<"C","a","t">>, <<"s">>,
    <<"U+00C9">>, <<"U+00A0">>, <<"U+0130">>
}

RECURSIVE Concats(_)
Concats(n) ==
    IF n = 0 THEN {<<>>}
    ELSE LET shorter == Concats(n - 1)
         IN  shorter \cup {c \o t : c \in Chunks, t \in shorter}

RawTexts == Concats(MaxChunks)

(***************************************************************************)
(* Normaliser: clean one raw text, then clean the result again             *)
(***************************************************************************)
TextIdle ==
    /\ raw = <<>>
    /\ once = <<>>
    /\ twice = <<>>
    /\ tpc = "idle"

CleanIdle ==
    /\ df = <<>>
    /\ text_dtype = "object"
    /\ clean_df = <<>>
    /\ removed_missing = 0
    /\ removed_empty = 0
    /\ removed_dup = 0
    /\ cpc = "idle"

LoadIdle ==
    /\ file_exists = FALSE
    /\ corpus = <<>>
    /\ sample_size = 0
    /\ loaded = [returned |-> "nothing"]
    /\ lpc = "idle"

\* FeatureEngineer.__init__: an unfitted TfidfVectorizer, is_fitted False
FeatureEngineerInit ==
    /\ is_fitted = FALSE
    /\ vectorizer = [vocabulary_ |-> {}, has_vocabulary |-> FALSE, idf_fitted |-> FALSE]
    /\ fit_texts = <<>>
    /\ calls = <<>>
    /\ fe_out = [returned |-> "nothing"]

SplitIdle ==
    /\ X = <<>>
    /\ y = <<>>
    /\ test_size = 0
    /\ split_out = [returned |-> "nothing"]
    /\ spc = "idle"

TextInit ==
    /\ raw \in RawTexts
    /\ once = <<>>
    /\ twice = <<>>
    /\ tpc = "raw"
    /\ CleanIdle
    /\ LoadIdle
    /\ FeatureEngineerInit
    /\ SplitIdle

CleanOnce ==
    /\ tpc = "raw"
    /\ once' = clean_text_fast(raw)
    /\ tpc' = "once"
    /\ UNCHANGED <<raw, twice, cleanVars, loadVars, feVars, splitVars>>

CleanTwice ==
    /\ tpc = "once"
    /\ twice' = clean_text_fast(once)
    /\ tpc' = "twice"
    /\ UNCHANGED <<raw, once, cleanVars, loadVars, feVars, splitVars>>

TextNext == CleanOnce \/ CleanTwice

SpecText == TextInit /\ [][TextNext]_vars

\* C1: cleaning an already cleaned text changes nothing:
\* clean_text_fast(clean_text_fast(t)) = clean_text_fast(t)
C1_Idempotent == tpc = "twice" => twice = once

\* C1 witness: a text that cleaning changed, two words of it kept, cleaned twice
C1_Witness ==
    /\ tpc = "twice"
    /\ once # raw
    /\ Len(split(once)) >= 2

(***************************************************************************)
(* DataCleaner.clean_dataset                                               *)
(***************************************************************************)
\* config.settings.SENTIMENT_MAP
SENTIMENT_MAP == (0 :> "negative") @@ (2 :> "neutral") @@ (4 :> "positive")

\* the value Series.map leaves for a key the mapping lacks
NaNLabel == "NaN"

\* str.strip()
RECURSIVE lstrip(_)
lstrip(s) == IF s # <<>> /\ IsSpace(Head(s)) THEN lstrip(Tail(s)) ELSE s

RECURSIVE rstrip(_)
rstrip(s) ==
    IF s # <<>> /\ IsSpace(s[Len(s)]) THEN rstrip(SubSeq(s, 1, Len(s) - 1)) ELSE s

strip(s) == rstrip(lstrip(s))

\* clean_df.dropna(subset=['text'])
HasText(r) == r.text # NaN
dropna(d) == SelectSeq(d, HasText)

\* clean_df['text'].str: the accessor is there for an object column only;
\* pandas raises AttributeError for a float64 column, with or without rows
StrAccessorRaises(dtype) == dtype # "object"

\* clean_df[clean_df['text'].str.strip() != ''], the column being of object
\* dtype
NotBlank(r) == strip(r.text) # <<>>
DropBlank(d) == SelectSeq(d, NotBlank)

\* clean_df['cleaned_text'] = clean_df['text'].progress_apply(self.clean_text_fast)
WithCleanedText(r) ==
    [id |-> r.id, sentiment |-> r.sentiment, text |-> r.text,
     cleaned_text |-> clean_text_fast(r.text)]

RECURSIVE AddCleanedText(_)
AddCleanedText(d) ==
    IF d = <<>> THEN <<>>
    ELSE <<WithCleanedText(Head(d))>> \o AddCleanedText(Tail(d))

\* clean_df[clean_df['cleaned_text'].str.len() > 0]
HasCleanedText(r) == Len(r.cleaned_text) > 0
DropEmptyCleaned(d) == SelectSeq(d, HasCleanedText)

\* clean_df['sentiment_label'] = clean_df['sentiment'].map(SENTIMENT_MAP)
MapLabel(code) ==
    IF code \in DOMAIN SENTIMENT_MAP THEN SENTIMENT_MAP[code] ELSE NaNLabel

WithSentimentLabel(r) ==
    [id |-> r.id, sentiment |-> r.sentiment, text |-> r.text,
     cleaned_text |-> r.cleaned_text,
     sentiment_label |-> MapLabel(r.sentiment)]

RECURSIVE AddSentimentLabel(_)
AddSentimentLabel(d) ==
    IF d = <<>> THEN <<>>
    ELSE <<WithSentimentLabel(Head(d))>> \o AddSentimentLabel(Tail(d))

\* drop_duplicates keeps row i of d (keep='first'): no earlier row has its key
KeepLast(d, i) == \A j \in (i + 1)..Len(d) : d[j].cleaned_text # d[i].cleaned_text
KeepFirst(d, i) == \A j \in 1..(i - 1) : d[j].cleaned_text # d[i].cleaned_text

\* clean_df.drop_duplicates(subset=['cleaned_text'])
RECURSIVE DropDuplicatesFrom(_, _)
DropDuplicatesFrom(d, i) ==
    IF i > Len(d) THEN <<>>
    ELSE (IF KeepFirst(d, i) THEN <<d[i]>> ELSE <<>>) \o DropDuplicatesFrom(d, i + 1)

drop_duplicates(d) == DropDuplicatesFrom(d, 1)

\* Step 1: the frame after both emptiness filters
Step1(d) == DropBlank(dropna(d))

\* Step 2 and 3: clean, then drop what became empty
Step3(d) == DropEmptyCleaned(AddCleanedText(d))

\* Step 4, 5 and 6: label, drop duplicates, reset the index
Step5(d) == drop_duplicates(AddSentimentLabel(d))

\* original_count = len(clean_df) before step 1, 3 and 5: d is the caller's
\* frame, s1 the frame after step 1, s3 the frame after step 3
original_count_66(d) == Len(d)
original_count_77(s1) == Len(s1)
original_count_85_stale(s1, s3) == Len(s1)
original_count_85(s1, s3) == Len(s3)

\* original_count - len(clean_df), as printed after each step
Removed(original_count, d) == original_count - Len(d)

(***************************************************************************)
(* Frames for clean_dataset: up to MaxRows rows, each a label code (the    *)
(* mapped code 4 or the unmapped code 1) and a text cell: missing, blank,  *)
(* a text that cleans to nothing, two texts that clean alike, one more.    *)
(***************************************************************************)
MaxRows == 4

LabelCodes == {4, 1}

DatasetTexts == {
    NaN,
    <<" ">>,
    <<"t","o"," ","@","a","l">>,
    <<"L","O","V","E"," ","i","t","!">>,
    <<"i"," ","l","o","v","e">>,
    <<"b","a","d"," ","f","i","l","m">>
}

\* the frame with label codes c and texts t, row i at position i
Frame(n, c, t) == [i \in 1..n |-> [id |-> i, sentiment |-> c[i], text |-> t[i]]]

\* the dtypes the text column of d can have: float64 only without a string
TextDtypes(d) ==
    IF \A i \in 1..Len(d) : d[i].text = NaN THEN {"object", "float64"}
    ELSE {"object"}

CleanInit ==
    /\ \E n \in 0..MaxRows :
           \E c \in [1..n -> LabelCodes], t \in [1..n -> DatasetTexts] :
               df = Frame(n, c, t)
    /\ text_dtype \in TextDtypes(df)
    /\ clean_df = <<>>
    /\ removed_missing = 0
    /\ removed_empty = 0
    /\ removed_dup = 0
    /\ cpc = "start"
    /\ TextIdle
    /\ LoadIdle
    /\ FeatureEngineerInit
    /\ SplitIdle

\* DataCleaner.clean_dataset(df): the whole call.  dropna keeps the dtype
\* of the column, so line 68 raises AttributeError for a float64 text
\* column, before anything is printed; otherwise the call returns.
clean_dataset ==
    /\ cpc = "start"
    /\ IF StrAccessorRaises(text_dtype)
           THEN /\ cpc' = "raised"
                /\ UNCHANGED <<clean_df, removed_missing, removed_empty, removed_dup>>
       ELSE /\ \E s1 \in {Step1(df)} :
               \E s3 \in {Step3(s1)} :
               \E s5 \in {Step5(s3)} :
                   /\ removed_missing' = Removed(original_count_66(df), s1)
                   /\ removed_empty' = Removed(original_count_77(s1), s3)
                   /\ removed_dup' = Removed(original_count_85(s1, s3), s5)
                   /\ clean_df' = s5
            /\ cpc' = "done"
    /\ UNCHANGED <<df, text_dtype, textVars, loadVars, feVars, splitVars>>

CleanNext == clean_dataset

SpecClean == CleanInit /\ [][CleanNext]_vars

\* rows of the input frame that have a text, and per row of the input frame
\* the cleaning of its text (NaN for a missing text)
Cleanable == {k \in 1..Len(df) : df[k].text # NaN}

RECURSIVE CleanedFrom(_)
CleanedFrom(k) ==
    IF k > Len(df) THEN <<>>
    ELSE <<IF df[k].text = NaN THEN NaN ELSE clean_text_fast(df[k].text)>>
         \o CleanedFrom(k + 1)

\* C2: the returned corpus has no empty cleaned_text and no two rows with the
\* same cleaned_text; the row kept for a cleaned_text is the first input row
\* that cleans to it, every non-empty cleaned_text of the input is kept, and
\* the kept rows are in input order
C2_NoEmptyNoDuplicateFirstKept ==
    cpc = "done" =>
        \A cleaned \in {CleanedFrom(1)} :
            /\ \A i \in 1..Len(clean_df) : clean_df[i].cleaned_text # <<>>
            /\ \A i, j \in 1..Len(clean_df) :
                   i # j => clean_df[i].cleaned_text # clean_df[j].cleaned_text
            /\ \A i \in 1..Len(clean_df) :
                   /\ clean_df[i].id \in Cleanable
                   /\ cleaned[clean_df[i].id] = clean_df[i].cleaned_text
                   /\ \A k \in Cleanable :
                          cleaned[k] = clean_df[i].cleaned_text => clean_df[i].id <= k
            /\ \A k \in Cleanable :
                   cleaned[k] # <<>> =>
                       \E i \in 1..Len(clean_df) : clean_df[i].cleaned_text = cleaned[k]
            /\ \A i, j \in 1..Len(clean_df) : i < j => clean_df[i].id < clean_df[j].id

\* C2 witness: a duplicate was dropped and two distinct texts were kept
C2_Witness ==
    /\ cpc = "done"
    /\ removed_dup > 0
    /\ Len(clean_df) = 2

\* C8: clean_dataset never raises, and every row of the returned corpus
\* carries one of the three labels (rows with a missing or unmapped label
\* code are dropped)
C8_EveryRowLabelled ==
    /\ cpc # "raised"
    /\ cpc = "done" =>
           \A i \in 1..Len(clean_df) :
               clean_df[i].sentiment_label \in {"negative", "neutral", "positive"}

\* C10: the three removal counts and the size of the returned corpus add up to
\* the size of the input, and the call leaves the input frame as it was
C10_Conservation ==
    /\ [](cpc = "done" =>
            removed_missing + removed_empty + removed_dup + Len(clean_df) = Len(df))
    /\ [][df' = df]_vars

\* C10 witness: each of the three stages removed a row and a row was returned
C10_Witness ==
    /\ cpc = "done"
    /\ removed_missing > 0
    /\ removed_empty > 0
    /\ removed_dup > 0
    /\ Len(clean_df) > 0

(***************************************************************************)
(* DataCollector.load_data                                                 *)
(***************************************************************************)
\* every ordering of the finite set S
RECURSIVE Orderings(_)
Orderings(S) ==
    IF S = {} THEN {<<>>}
    ELSE UNION {{<<x>> \o p : p \in Orderings(S \ {x})} : x \in S}

\* the ids of the rows of d, and of those with label code c
Ids(d) == {d[i].id : i \in 1..Len(d)}
IdsWithCode(d, c) == {d[i].id : i \in {k \in 1..Len(d) : d[k].sentiment = c}}

Min(a, b) == IF a <= b THEN a ELSE b

\* half_sample = sample_size // 2
half_sample_whole(n) == n
half_sample(n) == n \div 2

\* tweets.sample(n=min(half_sample, len(tweets)), random_state=42): the sets
\* of rows such a draw can give
Samples(ids, n) == {S \in SUBSET ids : Cardinality(S) = Min(n, Cardinality(ids))}

\* if sample_size and sample_size < len(df)
TakesSample(n, d) == n # 0 /\ n < Len(d)

\* pd.concat([neg_sample, pos_sample]) then df.sample(frac=1, random_state=42)
\* .reset_index(drop=True): the frames the balanced sample can be
BalancedSamples(d, n) ==
    UNION {
        { [i \in 1..Len(p) |-> d[p[i]]] : p \in Orderings(neg \cup pos) } :
        neg \in Samples(IdsWithCode(d, 0), half_sample(n)),
        pos \in Samples(IdsWithCode(d, 4), half_sample(n)) }

(***************************************************************************)
(* Dataset files for load_data: absent, or holding up to MaxCorpus rows    *)
(* with label codes 0, 2 or 4; sample_size from 0 to MaxSample.            *)
(***************************************************************************)
MaxCorpus == 4
MaxSample == 4

CorpusCodes == {0, 2, 4}

LoadInit ==
    /\ file_exists \in BOOLEAN
    /\ \E n \in 0..MaxCorpus :
           \E c \in [1..n -> CorpusCodes] :
               corpus = [i \in 1..n |-> [id |-> i, sentiment |-> c[i]]]
    /\ sample_size \in 0..MaxSample
    /\ loaded = [returned |-> "nothing"]
    /\ lpc = "start"
    /\ TextIdle
    /\ CleanIdle
    /\ FeatureEngineerInit
    /\ SplitIdle

\* DataCollector.load_data(sample_size): the whole call.  A missing file
\* returns None (check_dataset_exists).  read_csv is given names=COLUMNS, so
\* a file without rows reads as a frame without rows, which is returned as
\* it is (sample_size < 0 is false of every sample_size the model draws).
load_data ==
    /\ lpc = "start"
    /\ IF ~file_exists
           THEN loaded' = [returned |-> "None"]
       ELSE IF TakesSample(sample_size, corpus)
           THEN \E s \in BalancedSamples(corpus, sample_size) :
                    loaded' = [returned |-> "DataFrame", rows |-> s]
       ELSE loaded' = [returned |-> "DataFrame", rows |-> corpus]
    /\ lpc' = "done"
    /\ UNCHANGED <<file_exists, corpus, sample_size, textVars, cleanVars, feVars, splitVars>>

LoadNext == load_data

SpecLoad == LoadInit /\ [][LoadNext]_vars

ReturnedFrame == lpc = "done" /\ loaded.returned = "DataFrame"

\* number of rows of d with label code c
CountCode(d, c) == Cardinality({i \in 1..Len(d) : d[i].sentiment = c})

\* C3: what load_data returns is a subset of the corpus, each row at most
\* once, of size at most sample_size (for every sample_size, 0 included)
C3_SubsetOfSizeAtMostN ==
    ReturnedFrame =>
        /\ \A i \in 1..Len(loaded.rows) :
               /\ loaded.rows[i].id \in 1..Len(corpus)
               /\ loaded.rows[i] = corpus[loaded.rows[i].id]
        /\ \A i, j \in 1..Len(loaded.rows) :
               i # j => loaded.rows[i].id # loaded.rows[j].id
        /\ Len(loaded.rows) <= sample_size

\* C4 as claimed: for even sample_size and a corpus in which each label class
\* present has at least sample_size/2 rows, the output has exactly sample_size
\* rows and each class present contributes exactly sample_size/2 of them
C4_AsClaimed ==
    ( /\ ReturnedFrame
      /\ sample_size % 2 = 0
      /\ \A c \in CorpusCodes :
             CountCode(corpus, c) > 0 => 2 * CountCode(corpus, c) >= sample_size )
    => /\ Len(loaded.rows) = sample_size
       /\ \A c \in CorpusCodes :
              CountCode(corpus, c) > 0 => 2 * CountCode(loaded.rows, c) = sample_size

\* C4 amended: for even sample_size and a dataset file in which the negative
\* (0) and the positive (4) class each have at least sample_size/2 rows,
\* load_data returns, for sample_size >= 2, exactly sample_size rows,
\* sample_size/2 negative and sample_size/2 positive, and for sample_size = 0
\* the whole corpus
C4_BalancedExact ==
    ( /\ lpc = "done"
      /\ file_exists
      /\ sample_size % 2 = 0
      /\ 2 * CountCode(corpus, 0) >= sample_size
      /\ 2 * CountCode(corpus, 4) >= sample_size )
    => /\ loaded.returned = "DataFrame"
       /\ sample_size >= 2 =>
              /\ Len(loaded.rows) = sample_size
              /\ 2 * CountCode(loaded.rows, 0) = sample_size
              /\ 2 * CountCode(loaded.rows, 4) = sample_size
       /\ sample_size = 0 => loaded.rows = corpus

\* C4 witness: a balanced sample of 2 was drawn from a larger corpus that
\* also holds a neutral row
C4_Witness ==
    /\ ReturnedFrame
    /\ sample_size = 2
    /\ Len(corpus) > 2
    /\ CountCode(corpus, 2) > 0
    /\ CountCode(loaded.rows, 0) = 1
    /\ CountCode(loaded.rows, 4) = 1

(***************************************************************************)
(* FeatureEngineer: TfidfVectorizer(max_features=10000, min_df=5,          *)
(* max_df=0.95, ngram_range=(1, 2), stop_words='english').  A cleaned text *)
(* is the sequence of its words; a term is a sequence of one or two words. *)
(* A TF-IDF matrix is kept as its sparsity pattern: per row, the set of    *)
(* terms with a nonzero weight.                                            *)
(***************************************************************************)
max_features == 10000
min_df == 5
\* max_df = 0.95, in hundredths
max_df == 95

\* stop_words='english': the words of the vectorizer's built-in English list
\* among the words of the model's documents
ENGLISH_STOP_WORDS == {"very", "much"}

\* the analyzer drops the stop words, then forms the n-grams
NotStopWord(word) == word \notin ENGLISH_STOP_WORDS
Tokens(doc) == SelectSeq(doc, NotStopWord)

\* ngram_range=(1, 2): the unigrams and the bigrams of a token sequence
Unigrams(toks) == {<<toks[i]>> : i \in 1..Len(toks)}
Bigrams(toks) == {<<toks[i], toks[i + 1]>> : i \in 1..(Len(toks) - 1)}
Terms(doc) == Unigrams(Tokens(doc)) \cup Bigrams(Tokens(doc))

\* per document, the set of its terms
RECURSIVE Analyze(_)
Analyze(texts) ==
    IF texts = <<>> THEN <<>> ELSE <<Terms(Head(texts))>> \o Analyze(Tail(texts))

AllTerms(A) == UNION {A[i] : i \in 1..Len(A)}

\* document frequency of term t, and its number of occurrences over the corpus
DocFreq(t, A) == Cardinality({i \in 1..Len(A) : t \in A[i]})

Occurrences(t, doc) ==
    LET toks == Tokens(doc)
    IN  IF Len(t) = 1
            THEN Cardinality({i \in 1..Len(toks) : toks[i] = t[1]})
            ELSE Cardinality({i \in 1..(Len(toks) - 1) :
                                toks[i] = t[1] /\ toks[i + 1] = t[2]})

RECURSIVE TermFreq(_, _)
TermFreq(t, texts) ==
    IF texts = <<>> THEN 0 ELSE Occurrences(t, Head(texts)) + TermFreq(t, Tail(texts))

\* min_df <= df and df <= max_df * n_doc
InDfRange(dfreq, n_doc) == dfreq >= min_df /\ 100 * dfreq <= max_df * n_doc

\* max_features: when more terms survive, the max_features most frequent
LimitFeatures(kept, texts) ==
    IF Cardinality(kept) <= max_features THEN kept
    ELSE CHOOSE S \in SUBSET kept :
             /\ Cardinality(S) = max_features
             /\ \A a \in S, b \in kept \ S : TermFreq(a, texts) >= TermFreq(b, texts)

\* the vocabulary fit_transform learns from texts (A its analysis)
Vocabulary(texts, A) ==
    LimitFeatures({t \in AllTerms(A) : InDfRange(DocFreq(t, A), Len(A))}, texts)

\* fit_transform raises ValueError: no term at all, max_df * n_doc below
\* min_df, or no term left after pruning
FitRaises(texts, A) ==
    \/ AllTerms(A) = {}
    \/ max_df * Len(A) < 100 * min_df
    \/ Vocabulary(texts, A) = {}

\* rows of the matrix for texts under vocabulary V: every term of the row's
\* document that is in V has a positive tf * idf
RECURSIVE Matrix(_, _)
Matrix(texts, V) ==
    IF texts = <<>> THEN <<>>
    ELSE <<Terms(Head(texts)) \cap V>> \o Matrix(Tail(texts), V)

\* self.is_fitted when fit_transform raised: line 38 is not reached, and
\* nothing resets the flag a completed fit has set
is_fitted_after_raise(fitted) == fitted

(***************************************************************************)
(* Texts for the FeatureEngineer: DocPool[k] repeated c[k] times, at most  *)
(* MaxDocs documents; at most MaxCalls calls on the instance.              *)
(***************************************************************************)
MaxDocs == 6
MaxCalls == 4

DocPool == << <<"love", "very", "hate">>, <<"hate", "love">>, <<"very">> >>

RECURSIVE Repeat(_, _)
Repeat(doc, n) == IF n = 0 THEN <<>> ELSE <<doc>> \o Repeat(doc, n - 1)

RECURSIVE CorpusFrom(_, _)
CorpusFrom(c, k) ==
    IF k > Len(DocPool) THEN <<>>
    ELSE Repeat(DocPool[k], c[k]) \o CorpusFrom(c, k + 1)

RECURSIVE Total(_, _)
Total(c, k) == IF k > Len(DocPool) THEN 0 ELSE c[k] + Total(c, k + 1)

Corpora ==
    {CorpusFrom(c, 1) :
        c \in {f \in [1..Len(DocPool) -> 0..MaxDocs] : Total(f, 1) <= MaxDocs}}

SingleTexts == {<<DocPool[k]>> : k \in 1..Len(DocPool)}

FEInit ==
    /\ FeatureEngineerInit
    /\ TextIdle
    /\ CleanIdle
    /\ LoadIdle
    /\ SplitIdle

\* FeatureEngineer.create_features(texts): the whole call.  When
\* fit_transform raises, vocabulary_ is as it was; the fitted idf is as it
\* was where the vectorizer keeps one TfidfTransformer for its lifetime and
\* is gone where fit_transform builds a new one before it counts the terms.
create_features ==
    /\ Len(calls) < MaxCalls
    /\ \E texts \in Corpora :
       \E A \in {Analyze(texts)} :
           IF FitRaises(texts, A)
           THEN /\ is_fitted' = is_fitted_after_raise(is_fitted)
                /\ \E idf \in {vectorizer.idf_fitted, FALSE} :
                       vectorizer' = [vectorizer EXCEPT !.idf_fitted = idf]
                /\ calls' = Append(calls, [call |-> "create_features", outcome |-> "ValueError"])
                /\ fe_out' = [returned |-> "raised"]
                /\ UNCHANGED fit_texts
           ELSE \E V \in {Vocabulary(texts, A)} :
                /\ is_fitted' = TRUE
                /\ vectorizer' = [vocabulary_ |-> V, has_vocabulary |-> TRUE, idf_fitted |-> TRUE]
                /\ fit_texts' = texts
                /\ calls' = Append(calls, [call |-> "create_features", outcome |-> "ok"])
                /\ fe_out' = [returned |-> "features", texts |-> texts,
                              X |-> Matrix(texts, V), feature_names |-> V]
    /\ UNCHANGED <<textVars, cleanVars, loadVars, splitVars>>

\* FeatureEngineer.transform(texts): the whole call
transform ==
    /\ Len(calls) < MaxCalls
    /\ \E texts \in SingleTexts :
           IF ~is_fitted
           THEN /\ calls' = Append(calls, [call |-> "transform", outcome |-> "RuntimeError"])
                /\ fe_out' = [returned |-> "raised"]
           ELSE IF ~vectorizer.idf_fitted
           THEN /\ calls' = Append(calls, [call |-> "transform", outcome |-> "NotFittedError"])
                /\ fe_out' = [returned |-> "raised"]
           ELSE /\ calls' = Append(calls, [call |-> "transform", outcome |-> "ok"])
                /\ fe_out' = [returned |-> "matrix", texts |-> texts,
                              X |-> Matrix(texts, vectorizer.vocabulary_)]
    /\ UNCHANGED <<is_fitted, vectorizer, fit_texts, textVars, cleanVars, loadVars, splitVars>>

FENext == create_features \/ transform

SpecFE == FEInit /\ [][FENext]_vars

\* call k was a create_features that completed
FitCompleted(k) == calls[k].call = "create_features" /\ calls[k].outcome = "ok"

\* the outcomes of transform that say the vectorizer is not fitted: the
\* RuntimeError of line 53 and scikit-learn's NotFittedError
NotFittedOutcomes == {"RuntimeError", "NotFittedError"}

\* C5: a transform call made before any create_features call has completed
\* (one that raised does not count) fails with the not-fitted error of line 53
\* and returns no matrix; a transform call made after a create_features call
\* has completed does not fail with a not-fitted error; and no
\* create_features call, first or later, is turned away
C5_NotFittedUntilFit ==
    /\ \A k \in 1..Len(calls) :
           calls[k].call = "transform" =>
               IF \E j \in 1..(k - 1) : FitCompleted(j)
               THEN calls[k].outcome \notin NotFittedOutcomes
               ELSE calls[k].outcome = "RuntimeError"
    /\ \A k \in 1..Len(calls) :
           calls[k].call = "create_features" => calls[k].outcome \in {"ok", "ValueError"}
    /\ (calls # <<>> /\ calls[Len(calls)].outcome # "ok") => fe_out.returned = "raised"
    /\ (calls # <<>> /\ FitCompleted(Len(calls))) =>
           /\ fit_texts = fe_out.texts
           /\ vectorizer.vocabulary_ = fe_out.feature_names

\* the unigrams and the contiguous bigrams of the cleaned text doc itself
TermsOfCleanedText(doc) == Unigrams(doc) \cup Bigrams(doc)

\* C9: the vector transform returns for a document used in create_features is
\* nonzero only at terms that are unigrams of its cleaned text or bigrams of
\* two words adjacent in its cleaned text
C9_NonzeroTermsContiguous ==
    ( /\ fe_out.returned = "matrix"
      /\ \E i \in 1..Len(fit_texts) : fit_texts[i] = fe_out.texts[1] )
    => fe_out.X[1] \subseteq TermsOfCleanedText(fe_out.texts[1])

(***************************************************************************)
(* FeatureEngineer.split_data: train_test_split(X, y, test_size=test_size, *)
(* random_state=42, stratify=y), and on ValueError the same call without   *)
(* stratify.  A row of X is its position in X; test_size is in hundredths. *)
(***************************************************************************)
\* test_size * n_samples is a product of floats: for these (n_samples,
\* test_size) pairs the exact product is an integer and the float product is
\* the next float above it (0.28 * 25 = 7.000000000000001).  The pairs are
\* those with n_samples up to 300 and test_size from 0.01 to 0.99; for every
\* other pair in that range the float and the exact product have the same
\* ceiling.
FloatProductAbove == {
    <<25, 28>>, <<25, 56>>, <<50, 14>>, <<50, 28>>, <<50, 56>>, <<75, 28>>,
    <<75, 56>>, <<75, 68>>, <<100, 7>>, <<100, 14>>, <<100, 28>>, <<100, 55>>,
    <<100, 56>>, <<150, 14>>, <<150, 28>>, <<150, 34>>, <<150, 56>>, <<150, 68>>,
    <<175, 28>>, <<175, 56>>, <<175, 68>>, <<180, 55>>, <<200, 7>>, <<200, 14>>,
    <<200, 28>>, <<200, 55>>, <<200, 56>>, <<220, 55>>, <<225, 28>>, <<225, 56>>,
    <<275, 28>>, <<275, 56>>, <<300, 7>>, <<300, 14>>, <<300, 17>>, <<300, 28>>,
    <<300, 34>>, <<300, 56>>, <<300, 68>>, <<300, 81>> }

\* n_test = ceil(test_size * n_samples)
n_test_of(n, f) ==
    IF <<n, f>> \in FloatProductAbove THEN (f * n) \div 100 + 1
    ELSE (f * n + 99) \div 100

\* n_train = n_samples - n_test (train_size is None)
n_train_of(n, f) == n - n_test_of(n, f)

\* train_test_split raises ValueError whatever stratify is: test_size not
\* inside (0, 1), or an empty train set
SizesRaise(n, f) == f <= 0 \/ f >= 100 \/ n_train_of(n, f) = 0

Classes(labels) == {labels[i] : i \in 1..Len(labels)}
Members(labels, c) == {i \in 1..Len(labels) : labels[i] = c}

\* the stratified splitter raises ValueError: a class with fewer than 2
\* members, or fewer train or test samples than classes
StratifyRaises(labels, f) ==
    \/ \E c \in Classes(labels) : Cardinality(Members(labels, c)) < 2
    \/ n_train_of(Len(labels), f) < Cardinality(Classes(labels))
    \/ n_test_of(Len(labels), f) < Cardinality(Classes(labels))

\* the index sequences of a shuffle split: a permutation's first n_test
\* entries are the test set, the next n_train the train set
TrainSliceOverlapping(p, n_test, n_train) == SubSeq(p, n_test, n_test + n_train - 1)
TrainSlice(p, n_test, n_train) == SubSeq(p, n_test + 1, n_test + n_train)
TestSlice(p, n_test) == SubSeq(p, 1, n_test)

ShuffleSplits(n, f) ==
    { [train |-> TrainSlice(p, n_test_of(n, f), n_train_of(n, f)),
       test |-> TestSlice(p, n_test_of(n, f))] : p \in Orderings(1..n) }

\* the per-class train counts a stratified split can draw (_approximate_mode):
\* the floor of the class's share of n_draws, plus one for the classes with
\* the largest remainders until n_draws is reached, ties drawn at random
Allocations(labels, n_draws) ==
    LET cs == Classes(labels)
        n == Len(labels)
        cnt(c) == Cardinality(Members(labels, c))
        floored(c) == (cnt(c) * n_draws) \div n
        rem(c) == (cnt(c) * n_draws) % n
    IN  { a \in [cs -> 0..n] :
            /\ \A c \in cs : a[c] \in {floored(c), floored(c) + 1}
            /\ \A c \in cs : a[c] = floored(c) + 1 => rem(c) > 0
            /\ \A c, d \in cs :
                   (a[c] = floored(c) + 1 /\ a[d] = floored(d)) => rem(c) >= rem(d)
            /\ Cardinality(UNION {{<<c, k>> : k \in 1..a[c]} : c \in cs}) = n_draws }

\* the index sequences of a stratified split: per class, a[c] members go to
\* train and the rest to test; each side is then shuffled
StratifiedSplits(labels, f) ==
    UNION {
        UNION {
            { [train |-> ptr, test |-> pte] :
                ptr \in Orderings(tr), pte \in Orderings((1..Len(labels)) \ tr) } :
            tr \in { S \in SUBSET (1..Len(labels)) :
                       \A c \in Classes(labels) :
                           Cardinality(S \cap Members(labels, c)) = a[c] } } :
        a \in Allocations(labels, n_train_of(Len(labels), f)) }

\* rows of arr at the positions idx
Take(arr, idx) == [i \in 1..Len(idx) |-> arr[idx[i]]]

SplitResult(s, stratified) ==
    [returned |-> "split", stratified |-> stratified,
     X_train |-> Take(X, s.train), X_test |-> Take(X, s.test),
     y_train |-> Take(y, s.train), y_test |-> Take(y, s.test)]

(***************************************************************************)
(* Datasets for split_data: up to MaxSamples rows with labels 0, 2 or 4,   *)
(* test_size 0.2 (the default) or 0.5.                                     *)
(***************************************************************************)
MaxSamples == 4

SplitLabels == {0, 2, 4}
TestSizes == {20, 50}

SplitInit ==
    /\ \E n \in 0..MaxSamples :
           /\ X = [i \in 1..n |-> i]
           /\ y \in [1..n -> SplitLabels]
    /\ test_size \in TestSizes
    /\ split_out = [returned |-> "nothing"]
    /\ spc = "start"
    /\ TextIdle
    /\ CleanIdle
    /\ LoadIdle
    /\ FeatureEngineerInit

\* FeatureEngineer.split_data(X, y, test_size): the whole call
split_data ==
    /\ spc = "start"
    /\ IF SizesRaise(Len(X), test_size)
           THEN split_out' = [returned |-> "raised", error |-> "ValueError"]
       ELSE IF StratifyRaises(y, test_size)
           THEN \E s \in ShuffleSplits(Len(X), test_size) :
                    split_out' = SplitResult(s, FALSE)
       ELSE \E s \in StratifiedSplits(y, test_size) :
                split_out' = SplitResult(s, TRUE)
    /\ spc' = "done"
    /\ UNCHANGED <<X, y, test_size, textVars, cleanVars, loadVars, feVars>>

SplitNext == split_data

SpecSplit == SplitInit /\ [][SplitNext]_vars

Returned == spc = "done" /\ split_out.returned = "split"

Range(s) == {s[i] : i \in 1..Len(s)}

\* k samples are within one sample of the fraction f (in hundredths) of n
WithinOne(k, n, f) == 100 * k - f * n <= 100 /\ f * n - 100 * k <= 100

\* C6: when split_data returns, train and test share no row, together hold
\* every row of the dataset exactly once, each row comes with its own label,
\* and the test size is within one sample of test_size * |dataset|, also
\* for the sizes at which the float product rounds above the exact one
C6_PartitionWithinOne ==
    Returned =>
        /\ Range(split_out.X_train) \cap Range(split_out.X_test) = {}
        /\ Range(split_out.X_train) \cup Range(split_out.X_test) = Range(X)
        /\ Len(split_out.X_train) + Len(split_out.X_test) = Len(X)
        /\ Len(split_out.y_train) = Len(split_out.X_train)
        /\ Len(split_out.y_test) = Len(split_out.X_test)
        /\ \A i \in 1..Len(split_out.X_train) :
               split_out.y_train[i] = y[split_out.X_train[i]]
        /\ \A i \in 1..Len(split_out.X_test) :
               split_out.y_test[i] = y[split_out.X_test[i]]
        /\ WithinOne(Len(split_out.X_test), Len(X), test_size)
        /\ \A p \in FloatProductAbove : WithinOne(n_test_of(p[1], p[2]), p[1], p[2])

\* C6 witness: a stratified split of two classes returned two test rows
C6_Witness ==
    /\ Returned
    /\ split_out.stratified
    /\ Cardinality(Classes(y)) = 2
    /\ Len(split_out.X_test) = 2

\* stratification is infeasible: a label with fewer than 2 examples, or a
\* dataset of 0 or 1 rows
StratificationInfeasible ==
    \/ Len(y) <= 1
    \/ \E c \in Classes(y) : Cardinality(Members(y, c)) < 2

\* C7: whenever stratification is infeasible, split_data does not raise: it
\* returns a train/test pair from the non-stratified split
C7_FallbackNeverRaises ==
    (spc = "done" /\ StratificationInfeasible) =>
        /\ split_out.returned = "split"
        /\ ~split_out.stratified

====
